---- MODULE Spec2Model ----
(***************************************************************************)
(* A model of rookie_text2data's database layer:                           *)
(*   - utils/alchemy_db_client.py: the process-wide engine cache           *)
(*     (get_engine_key, get_or_create_engine, log_connection_status,       *)
(*     dispose_all_engines, execute_sql);                                  *)
(*   - database_schema/inspectors/{dm,gaussdb,kingbase}.py: the comment    *)
(*     fetches and normalize_type.                                         *)
(*                                                                         *)
(* Strings are sequences of symbols.  A symbol is one character ("/", "@", *)
(* "(", " ", a digit) or one word written in one letter case ("varchar",   *)
(* "VARCHAR"); str.upper and str.lower act symbol by symbol, str.split and *)
(* str.strip act on the one-character symbols, and an f-string is the      *)
(* concatenation of its parts.                                             *)
(***************************************************************************)
EXTENDS Integers, Sequences, FiniteSets, TLC

VARIABLES
    cache,        \* _ENGINE_CACHE: engine key -> engine
    counters,     \* _CONNECTION_COUNTERS: engine key -> int
    ctime,        \* _ENGINE_CREATION_TIME: engine key -> creation time
    nextEngine,   \* the engines create_engine has built so far are 1..nextEngine-1
    disposeCount, \* engine -> number of engine.dispose() calls made on it
    ndispose,     \* number of dispose_all_engines calls started
    th,           \* thread -> the frame of the call it is running
    handed,       \* history: identity -> engines returned to completed
                  \* get_or_create_engine calls since the last dispose_all_engines
    lastDispose,  \* history: the call completed last was a dispose_all_engines
                  \* that returned normally
    call,         \* the pure-function harness: the call being evaluated
    ret           \* the pure-function harness: its outcome

vars == <<cache, counters, ctime, nextEngine, disposeCount, ndispose, th,
          handed, lastDispose, call, ret>>

machineVars == <<cache, counters, ctime, nextEngine, disposeCount, ndispose, th,
                 handed, lastDispose>>

----------------------------------------------------------------------------
(* Bounds *)

NumThreads == 2
MaxEngines == 3
MaxDispose == 2
MaxConcDispose == 1
MaxSuffixLen == 2
MaxColumns == 2
MaxTables == 2
MaxDigits == 3

Threads == 1..NumThreads
Engines == 1..MaxEngines

----------------------------------------------------------------------------
(* Strings *)

\* Optional[str] = None
None == <<"<None>">>

\* Python truthiness of an Optional[str]: None and "" are false
Truthy(s) == s # None /\ s # <<>>

DigitChar == <<"0", "1", "2", "3", "4", "5", "6", "7", "8", "9">>

RECURSIVE IntToStr(_)
\* str(n) of a non-negative int, as f"{port}" formats it
IntToStr(n) ==
    IF n < 10 THEN <<DigitChar[n + 1]>>
    ELSE IntToStr(n \div 10) \o <<DigitChar[(n % 10) + 1]>>

\* str.upper on the word symbols: every symbol that is not already upper case
UpperOf ==
    ("bigint" :> "BIGINT") @@ ("bigserial" :> "BIGSERIAL") @@
    ("binary" :> "BINARY") @@ ("binary_double" :> "BINARY_DOUBLE") @@
    ("binary_float" :> "BINARY_FLOAT") @@ ("bit" :> "BIT") @@
    ("blob" :> "BLOB") @@ ("bool" :> "BOOL") @@ ("boolean" :> "BOOLEAN") @@
    ("bytea" :> "BYTEA") @@ ("char" :> "CHAR") @@ ("character" :> "CHARACTER") @@
    ("clob" :> "CLOB") @@ ("date" :> "DATE") @@ ("datetime" :> "DATETIME") @@
    ("decimal" :> "DECIMAL") @@ ("dm" :> "DM") @@ ("double" :> "DOUBLE") @@
    ("float" :> "FLOAT") @@ ("float4" :> "FLOAT4") @@ ("float8" :> "FLOAT8") @@
    ("gaussdb" :> "GAUSSDB") @@ ("geometry" :> "GEOMETRY") @@
    ("image" :> "IMAGE") @@ ("int" :> "INT") @@ ("int2" :> "INT2") @@
    ("int4" :> "INT4") @@ ("int8" :> "INT8") @@ ("integer" :> "INTEGER") @@
    ("json" :> "JSON") @@ ("jsonb" :> "JSONB") @@ ("kingbase" :> "KINGBASE") @@
    ("long" :> "LONG") @@ ("mysql" :> "MYSQL") @@ ("nchar" :> "NCHAR") @@
    ("number" :> "NUMBER") @@ ("numeric" :> "NUMERIC") @@
    ("nvarchar" :> "NVARCHAR") @@ ("nvarchar2" :> "NVARCHAR2") @@
    ("oracle" :> "ORACLE") @@ ("postgresql" :> "POSTGRESQL") @@
    ("raw" :> "RAW") @@ ("real" :> "REAL") @@ ("serial" :> "SERIAL") @@
    ("smallint" :> "SMALLINT") @@ ("sqlserver" :> "SQLSERVER") @@
    ("text" :> "TEXT") @@ ("time" :> "TIME") @@ ("timestamp" :> "TIMESTAMP") @@
    ("timestamptz" :> "TIMESTAMPTZ") @@ ("tinyint" :> "TINYINT") @@
    ("uuid" :> "UUID") @@ ("varbinary" :> "VARBINARY") @@
    ("varchar" :> "VARCHAR") @@ ("varchar2" :> "VARCHAR2") @@
    ("Varchar" :> "VARCHAR") @@ ("PostgreSQL" :> "POSTGRESQL")

\* str.lower on the word symbols: every symbol that is not already lower case
LowerOf ==
    ("BIGINT" :> "bigint") @@ ("BIGSERIAL" :> "bigserial") @@
    ("BINARY" :> "binary") @@ ("BINARY_DOUBLE" :> "binary_double") @@
    ("BINARY_FLOAT" :> "binary_float") @@ ("BIT" :> "bit") @@
    ("BLOB" :> "blob") @@ ("BOOL" :> "bool") @@ ("BOOLEAN" :> "boolean") @@
    ("BYTEA" :> "bytea") @@ ("CHAR" :> "char") @@ ("CHARACTER" :> "character") @@
    ("CLOB" :> "clob") @@ ("DATE" :> "date") @@ ("DATETIME" :> "datetime") @@
    ("DECIMAL" :> "decimal") @@ ("DM" :> "dm") @@ ("DOUBLE" :> "double") @@
    ("FLOAT" :> "float") @@ ("FLOAT4" :> "float4") @@ ("FLOAT8" :> "float8") @@
    ("GAUSSDB" :> "gaussdb") @@ ("GEOMETRY" :> "geometry") @@
    ("IMAGE" :> "image") @@ ("INT" :> "int") @@ ("INT2" :> "int2") @@
    ("INT4" :> "int4") @@ ("INT8" :> "int8") @@ ("INTEGER" :> "integer") @@
    ("JSON" :> "json") @@ ("JSONB" :> "jsonb") @@ ("KINGBASE" :> "kingbase") @@
    ("LONG" :> "long") @@ ("MYSQL" :> "mysql") @@ ("NCHAR" :> "nchar") @@
    ("NUMBER" :> "number") @@ ("NUMERIC" :> "numeric") @@
    ("NVARCHAR" :> "nvarchar") @@ ("NVARCHAR2" :> "nvarchar2") @@
    ("ORACLE" :> "oracle") @@ ("POSTGRESQL" :> "postgresql") @@
    ("RAW" :> "raw") @@ ("REAL" :> "real") @@ ("SERIAL" :> "serial") @@
    ("SMALLINT" :> "smallint") @@ ("SQLSERVER" :> "sqlserver") @@
    ("TEXT" :> "text") @@ ("TIME" :> "time") @@ ("TIMESTAMP" :> "timestamp") @@
    ("TIMESTAMPTZ" :> "timestamptz") @@ ("TINYINT" :> "tinyint") @@
    ("UUID" :> "uuid") @@ ("VARBINARY" :> "varbinary") @@
    ("VARCHAR" :> "varchar") @@ ("VARCHAR2" :> "varchar2") @@
    ("Varchar" :> "varchar") @@ ("PostgreSQL" :> "postgresql") @@
    ("openGauss" :> "opengauss") @@ ("OPENGAUSS" :> "opengauss") @@
    ("Kingbase" :> "kingbase") @@ ("ES" :> "es") @@
    ("V" :> "v") @@ ("R" :> "r") @@ ("C" :> "c")

\* str.upper()
Upper(s) == [i \in 1..Len(s) |-> IF s[i] \in DOMAIN UpperOf THEN UpperOf[s[i]] ELSE s[i]]

\* str.lower()
Lower(s) == [i \in 1..Len(s) |-> IF s[i] \in DOMAIN LowerOf THEN LowerOf[s[i]] ELSE s[i]]

RECURSIVE SplitFirst(_, _)
\* s.split(c)[0]: what precedes the first c, all of s when it holds none
SplitFirst(s, c) ==
    IF s = <<>> \/ Head(s) = c THEN <<>>
    ELSE <<Head(s)>> \o SplitFirst(Tail(s), c)

RECURSIVE LStrip(_)
LStrip(s) == IF s # <<>> /\ Head(s) = " " THEN LStrip(Tail(s)) ELSE s

RECURSIVE RStrip(_)
RStrip(s) ==
    IF s # <<>> /\ s[Len(s)] = " " THEN RStrip(SubSeq(s, 1, Len(s) - 1)) ELSE s

\* str.strip()
Strip(s) == RStrip(LStrip(s))

----------------------------------------------------------------------------
(* get_engine_key *)

\* schema_part of get_engine_key
SchemaPart(schema) == IF Truthy(schema) THEN <<"/">> \o schema ELSE <<>>

\* f"{db_type}://{username}@{host}:{port}/{database}{schema_part}"
get_engine_key(db_type, host, port, database, username, schema) ==
    db_type \o <<":", "/", "/">> \o username \o <<"@">> \o host \o <<":">>
        \o IntToStr(port) \o <<"/">> \o database \o SchemaPart(schema)

\* the engine key of a connection identity
KeyOf(i) == get_engine_key(i.db_type, i.host, i.port, i.database, i.username, i.schema)

\* Connection identities the key function is evaluated on: the text fields
\* may hold the characters the key uses as separators.
KeyIdentities ==
    [db_type  : {<<"postgresql">>, <<"dm">>},
     host     : {<<"h">>, <<"h", "@", "h">>},
     port     : {1, 12},
     database : {<<"d">>, <<"d", "/", "s">>},
     username : {<<"u">>, <<"u", "@", "h">>},
     schema   : {None, <<>>, <<"s">>}]

NoCall == [fn |-> "none"]
NoRet == [kind |-> "none"]

----------------------------------------------------------------------------
(* The engine cache and the calls threads make on it *)

Ident(dbt, schema) ==
    [db_type |-> dbt, host |-> <<"h">>, port |-> 1, database |-> <<"d">>,
     username |-> <<"u">>, schema |-> schema]

\* The connection identities the callers use.
Idents ==
    {Ident(<<"postgresql">>, <<"s">>), Ident(<<"kingbase">>, <<"s">>),
     Ident(<<"dm">>, <<"s">>)}

NoIdent == Ident(<<>>, None)

\* A dict with no entry
EmptyMap == <<>>

\* d[k] = v
Put(d, k, v) == [x \in (DOMAIN d) \cup {k} |-> IF x = k THEN v ELSE d[x]]

\* The frame of a thread that runs no call.
IdleFrame ==
    [pc |-> "idle", op |-> "none", ident |-> NoIdent, key |-> <<>>, eng |-> 0,
     fresh |-> FALSE, gocDone |-> FALSE, prior |-> {},
     log |-> <<>>, failedStmt |-> FALSE, result |-> "none", exc |-> "none",
     iterSize |-> 0, visited |-> {}, second |-> FALSE, dcSnap |-> <<>>]

\* How an external call (create_engine, engine.begin, conn.execute,
\* engine.dispose) can end: normally, with a SQLAlchemyError, or with an
\* exception of another class (sqlalchemy re-raises what the driver raises
\* outside its DBAPI error hierarchy as it is).
Outcomes == {"ok", "SQLAlchemyError", "Exception"}

MachineInit ==
    /\ cache = EmptyMap
    /\ counters = EmptyMap
    /\ ctime = EmptyMap
    /\ nextEngine = 1
    /\ disposeCount = [e \in Engines |-> 0]
    /\ ndispose = 0
    /\ th = [t \in Threads |-> IdleFrame]
    /\ handed = [i \in Idents |-> {}]
    /\ lastDispose = FALSE

Init == MachineInit /\ call = NoCall /\ ret = NoRet

\* get_or_create_engine(...) called by the application
CallGetOrCreate(t) ==
    /\ th[t].pc = "idle"
    /\ \E i \in Idents :
         th' = [th EXCEPT ![t] = [IdleFrame EXCEPT !.pc = "goc_check", !.op = "goc",
                                     !.ident = i, !.prior = handed[i]]]
    /\ lastDispose' = FALSE
    /\ UNCHANGED <<cache, counters, ctime, nextEngine, disposeCount, ndispose,
                   handed, call, ret>>

\* execute_sql(...) up to its call of get_or_create_engine
CallExecuteSql(t) ==
    /\ th[t].pc = "idle"
    /\ \E i \in Idents :
         th' = [th EXCEPT ![t] = [IdleFrame EXCEPT !.pc = "goc_check", !.op = "exec",
                                     !.ident = i, !.key = KeyOf(i),
                                     !.prior = handed[i]]]
    /\ lastDispose' = FALSE
    /\ UNCHANGED <<cache, counters, ctime, nextEngine, disposeCount, ndispose,
                   handed, call, ret>>

\* A cache test that never finds the key
CacheHitNever(k) == FALSE

\* engine_key in _ENGINE_CACHE
CacheHit(k) == k \in DOMAIN cache

\* get_or_create_engine: the key and the cache test
GocCheck(t) ==
    /\ th[t].pc = "goc_check"
    /\ LET k == KeyOf(th[t].ident) IN
         th' = [th EXCEPT ![t].key = k,
                          ![t].pc = IF CacheHit(k) THEN "goc_hit" ELSE "goc_create"]
    /\ UNCHANGED <<cache, counters, ctime, nextEngine, disposeCount, ndispose,
                   handed, lastDispose, call, ret>>

\* The frame after get_or_create_engine returned engine e: the caller of
\* get_or_create_engine has its result, execute_sql goes on to its try block.
Returned(f, e) ==
    [f EXCEPT !.eng = e, !.gocDone = TRUE,
              !.pc = IF f.op = "exec" THEN "acquire" ELSE "done",
              !.result = IF f.op = "exec" THEN "none" ELSE "engine"]

\* The frame after the call raised an exception of class kind to its caller.
Raised(f, kind) == [f EXCEPT !.pc = "done", !.exc = kind, !.result = "none"]

\* get_or_create_engine: the cache hit
GocHit(t) ==
    /\ th[t].pc = "goc_hit"
    /\ LET k == th[t].key IN
         IF k \in DOMAIN ctime /\ k \in DOMAIN cache
         THEN /\ th' = [th EXCEPT ![t] = Returned(th[t], cache[k])]
              /\ handed' = [handed EXCEPT ![th[t].ident] = @ \cup {cache[k]}]
         ELSE /\ th' = [th EXCEPT ![t] = Raised(th[t], "KeyError")]
              /\ UNCHANGED handed
    /\ UNCHANGED <<cache, counters, ctime, nextEngine, disposeCount, ndispose,
                   lastDispose, call, ret>>

\* get_or_create_engine: the driver, the URI and create_engine
GocCreate(t) ==
    /\ th[t].pc = "goc_create"
    /\ nextEngine <= MaxEngines
    /\ \E o \in {"ok", "SQLAlchemyError"} :
         IF o = "ok"
         THEN /\ th' = [th EXCEPT ![t].eng = nextEngine, ![t].fresh = TRUE,
                                  ![t].pc = "goc_ins_cache"]
              /\ nextEngine' = nextEngine + 1
         ELSE /\ th' = [th EXCEPT ![t] = Raised(th[t], o)]
              /\ UNCHANGED nextEngine
    /\ UNCHANGED <<cache, counters, ctime, disposeCount, ndispose, handed,
                   lastDispose, call, ret>>

\* _ENGINE_CACHE[engine_key] = engine
GocInsertCache(t) ==
    /\ th[t].pc = "goc_ins_cache"
    /\ cache' = Put(cache, th[t].key, th[t].eng)
    /\ th' = [th EXCEPT ![t].pc = "goc_ins_counter"]
    /\ UNCHANGED <<counters, ctime, nextEngine, disposeCount, ndispose, handed,
                   lastDispose, call, ret>>

\* _CONNECTION_COUNTERS[engine_key] = 0
GocInsertCounter(t) ==
    /\ th[t].pc = "goc_ins_counter"
    /\ counters' = Put(counters, th[t].key, 0)
    /\ th' = [th EXCEPT ![t].pc = "goc_ins_time"]
    /\ UNCHANGED <<cache, ctime, nextEngine, disposeCount, ndispose, handed,
                   lastDispose, call, ret>>

\* _ENGINE_CREATION_TIME[engine_key] = time.time(); return engine
\* (the clock is the number of engines built so far)
GocInsertTime(t) ==
    /\ th[t].pc = "goc_ins_time"
    /\ ctime' = Put(ctime, th[t].key, nextEngine - 1)
    /\ th' = [th EXCEPT ![t] = Returned(th[t], th[t].eng)]
    /\ handed' = [handed EXCEPT ![th[t].ident] = @ \cup {th[t].eng}]
    /\ UNCHANGED <<cache, counters, nextEngine, disposeCount, ndispose,
                   lastDispose, call, ret>>

\* log_connection_status raises KeyError: the key passes the test on
\* _ENGINE_CACHE and _CONNECTION_COUNTERS holds no entry for it
LcsRaises(k) == k \in DOMAIN cache /\ k \notin DOMAIN counters

\* _CONNECTION_COUNTERS after log_connection_status(engine_key, action)
LcsCounters(k, action) ==
    IF k \notin DOMAIN cache THEN counters
    ELSE IF action = "acquire" THEN [counters EXCEPT ![k] = @ + 1]
    ELSE IF action = "release" THEN [counters EXCEPT ![k] = IF @ - 1 > 0 THEN @ - 1 ELSE 0]
    ELSE counters

\* execute_sql's except clause: a SQLAlchemyError is raised again as
\* ValueError("数据库操作失败：..."), any other exception passes through
Handle(kind) == IF kind = "SQLAlchemyError" THEN "ValueError" ELSE kind

\* execute_sql: log_connection_status(engine_key, "acquire")
ExecAcquire(t) ==
    /\ th[t].pc = "acquire"
    /\ IF LcsRaises(th[t].key)
       THEN /\ th' = [th EXCEPT ![t].exc = Handle("KeyError"), ![t].pc = "release"]
            /\ UNCHANGED counters
       ELSE /\ counters' = LcsCounters(th[t].key, "acquire")
            /\ th' = [th EXCEPT ![t].pc = "begin"]
    /\ UNCHANGED <<cache, ctime, nextEngine, disposeCount, ndispose, handed,
                   lastDispose, call, ret>>

\* execute_sql: with engine.begin() as conn
ExecBegin(t) ==
    /\ th[t].pc = "begin"
    /\ \E o \in {"ok", "SQLAlchemyError"} :
         IF o = "ok"
         THEN th' = [th EXCEPT ![t].pc = "schema"]
         ELSE th' = [th EXCEPT ![t].exc = Handle(o), ![t].pc = "release"]
    /\ UNCHANGED <<cache, counters, ctime, nextEngine, disposeCount, ndispose,
                   handed, lastDispose, call, ret>>

\* The schema-selection statement execute_sql issues for an identity,
\* "none" when it issues none.
SchemaStatement(i) ==
    IF Lower(i.db_type) \in {<<"postgresql">>, <<"gaussdb">>} /\ Truthy(i.schema)
    THEN "SET search_path TO"
    ELSE IF Lower(i.db_type) \in {<<"oracle">>, <<"dm">>} /\ Truthy(i.schema)
    THEN "ALTER SESSION SET CURRENT_SCHEMA ="
    ELSE "none"

\* execute_sql: the schema statement, run on conn inside the transaction
ExecSchema(t) ==
    /\ th[t].pc = "schema"
    /\ LET s == SchemaStatement(th[t].ident) IN
         IF s = "none"
         THEN th' = [th EXCEPT ![t].pc = "stmt"]
         ELSE \E o \in Outcomes :
                IF o = "ok"
                THEN th' = [th EXCEPT ![t].log = Append(@, s), ![t].pc = "stmt"]
                ELSE th' = [th EXCEPT ![t].log = Append(@, s),
                                      ![t].failedStmt = TRUE,
                                      ![t].exc = Handle(o), ![t].pc = "release"]
    /\ UNCHANGED <<cache, counters, ctime, nextEngine, disposeCount, ndispose,
                   handed, lastDispose, call, ret>>

\* _process_result: the rows when the statement returns rows, else the rowcount
ProcessResult(returns_rows) == IF returns_rows THEN "rows" ELSE "rowcount"

\* execute_sql: conn.execute(text(sql), params) and _process_result
ExecStatement(t) ==
    /\ th[t].pc = "stmt"
    /\ \E o \in Outcomes, returns_rows \in BOOLEAN :
         IF o = "ok"
         THEN th' = [th EXCEPT ![t].log = Append(@, "sql"),
                               ![t].result = ProcessResult(returns_rows),
                               ![t].pc = "commit"]
         ELSE th' = [th EXCEPT ![t].log = Append(@, "sql"), ![t].failedStmt = TRUE,
                               ![t].exc = Handle(o), ![t].pc = "release"]
    /\ UNCHANGED <<cache, counters, ctime, nextEngine, disposeCount, ndispose,
                   handed, lastDispose, call, ret>>

\* execute_sql: return result leaves the with block, which commits
ExecCommit(t) ==
    /\ th[t].pc = "commit"
    /\ \E o \in {"ok", "SQLAlchemyError"} :
         IF o = "ok"
         THEN th' = [th EXCEPT ![t].pc = "release"]
         ELSE th' = [th EXCEPT ![t].result = "none", ![t].exc = Handle(o),
                               ![t].pc = "release"]
    /\ UNCHANGED <<cache, counters, ctime, nextEngine, disposeCount, ndispose,
                   handed, lastDispose, call, ret>>

\* execute_sql: finally: log_connection_status(engine_key, "release")
ExecRelease(t) ==
    /\ th[t].pc = "release"
    /\ IF LcsRaises(th[t].key)
       THEN /\ th' = [th EXCEPT ![t] = Raised(th[t], "KeyError")]
            /\ UNCHANGED counters
       ELSE /\ counters' = LcsCounters(th[t].key, "release")
            /\ th' = [th EXCEPT ![t].pc = "done"]
    /\ UNCHANGED <<cache, ctime, nextEngine, disposeCount, ndispose, handed,
                   lastDispose, call, ret>>

\* dispose_all_engines: the call, up to the iterator over _ENGINE_CACHE.items()
DispStart(t) ==
    /\ th[t].pc = "idle"
    /\ ndispose < MaxDispose
    /\ ndispose' = ndispose + 1
    /\ th' = [u \in Threads |->
                IF u = t
                THEN [IdleFrame EXCEPT !.pc = "disp_next", !.op = "dispose",
                                       !.iterSize = Cardinality(DOMAIN cache),
                                       !.second = lastDispose,
                                       !.dcSnap = disposeCount]
                ELSE [th[u] EXCEPT !.prior = {}]]
    /\ handed' = [i \in Idents |-> {}]
    /\ lastDispose' = FALSE
    /\ UNCHANGED <<cache, counters, ctime, nextEngine, disposeCount, call, ret>>

\* dispose_all_engines: one turn of the loop.  The dict iterator raises
\* RuntimeError when the dict changed size; the entries are visited in an
\* order the model leaves open.
DispNext(t) ==
    /\ th[t].pc = "disp_next"
    /\ LET rest == (DOMAIN cache) \ th[t].visited IN
         IF Cardinality(DOMAIN cache) # th[t].iterSize
         THEN /\ th' = [th EXCEPT ![t] = Raised(th[t], "RuntimeError")]
              /\ UNCHANGED disposeCount
         ELSE IF rest = {}
         THEN /\ th' = [th EXCEPT ![t].pc = "disp_clear_cache"]
              /\ UNCHANGED disposeCount
         ELSE \E k \in rest, o \in {"ok", "Exception"} :
                IF o = "ok"
                THEN /\ disposeCount' = [disposeCount EXCEPT ![cache[k]] = @ + 1]
                     /\ th' = [th EXCEPT ![t].visited = @ \cup {k}]
                ELSE /\ th' = [th EXCEPT ![t] = Raised(th[t], o)]
                     /\ UNCHANGED disposeCount
    /\ UNCHANGED <<cache, counters, ctime, nextEngine, ndispose, handed,
                   lastDispose, call, ret>>

\* A dispose_all_engines that leaves _ENGINE_CACHE as it is
DispKeepCache(t) ==
    /\ th[t].pc = "disp_clear_cache"
    /\ th' = [th EXCEPT ![t].pc = "disp_clear_counters"]
    /\ UNCHANGED <<cache, counters, ctime, nextEngine, disposeCount, ndispose,
                   handed, lastDispose, call, ret>>

\* _ENGINE_CACHE.clear()
DispClearCache(t) ==
    /\ th[t].pc = "disp_clear_cache"
    /\ cache' = EmptyMap
    /\ th' = [th EXCEPT ![t].pc = "disp_clear_counters"]
    /\ UNCHANGED <<counters, ctime, nextEngine, disposeCount, ndispose, handed,
                   lastDispose, call, ret>>

\* _CONNECTION_COUNTERS.clear()
DispClearCounters(t) ==
    /\ th[t].pc = "disp_clear_counters"
    /\ counters' = EmptyMap
    /\ th' = [th EXCEPT ![t].pc = "disp_clear_time"]
    /\ UNCHANGED <<cache, ctime, nextEngine, disposeCount, ndispose, handed,
                   lastDispose, call, ret>>

\* _ENGINE_CREATION_TIME.clear(); the call returns
DispClearTime(t) ==
    /\ th[t].pc = "disp_clear_time"
    /\ ctime' = EmptyMap
    /\ th' = [th EXCEPT ![t].pc = "done", ![t].result = "None"]
    /\ lastDispose' = TRUE
    /\ UNCHANGED <<cache, counters, nextEngine, disposeCount, ndispose, handed,
                   call, ret>>

\* The caller takes the outcome of its call and is free to make the next one.
Return(t) ==
    /\ th[t].pc = "done"
    /\ th' = [th EXCEPT ![t] = IdleFrame]
    /\ UNCHANGED <<cache, counters, ctime, nextEngine, disposeCount, ndispose,
                   handed, lastDispose, call, ret>>

\* The steps inside a call
Step(t) ==
    \/ GocCheck(t)
    \/ GocHit(t)
    \/ GocCreate(t)
    \/ GocInsertCache(t)
    \/ GocInsertCounter(t)
    \/ GocInsertTime(t)
    \/ ExecAcquire(t)
    \/ ExecBegin(t)
    \/ ExecSchema(t)
    \/ ExecStatement(t)
    \/ ExecCommit(t)
    \/ ExecRelease(t)
    \/ DispNext(t)
    \/ DispClearCache(t)
    \/ DispClearCounters(t)
    \/ DispClearTime(t)
    \/ Return(t)

\* No other thread is inside a call.
Solo(t) == \A u \in Threads \ {t} : th[u].pc = "idle"

\* The calls made one at a time: a call runs to its end before the next starts.
SeqCallGetOrCreate(t) == Solo(t) /\ CallGetOrCreate(t)

SeqCallExecuteSql(t) == Solo(t) /\ CallExecuteSql(t)

SeqDispStart(t) == Solo(t) /\ DispStart(t)

Next ==
    \E t \in Threads :
        \/ SeqCallGetOrCreate(t)
        \/ SeqCallExecuteSql(t)
        \/ SeqDispStart(t)
        \/ Step(t)

Spec == Init /\ [][Next]_vars

\* The calls made by threads that interleave at the statements modelled.
\* The identities the interleaved callers use.
ConcIdents == {Ident(<<"postgresql">>, <<"s">>)}

ConcCallGetOrCreate(t) == CallGetOrCreate(t) /\ th'[t].ident \in ConcIdents

ConcCallExecuteSql(t) == CallExecuteSql(t) /\ th'[t].ident \in ConcIdents

ConcDispStart(t) == DispStart(t) /\ ndispose' <= MaxConcDispose

ConcNext ==
    \E t \in Threads :
        \/ ConcCallGetOrCreate(t)
        \/ ConcCallExecuteSql(t)
        \/ ConcDispStart(t)
        \/ Step(t)

ConcSpec == Init /\ [][ConcNext]_vars

----------------------------------------------------------------------------
(* get_engine_key, evaluated on pairs of identities *)

KeyInit ==
    /\ MachineInit
    /\ call \in [fn : {"get_engine_key"}, a : KeyIdentities, b : KeyIdentities]
    /\ ret = NoRet

\* get_engine_key(...) on both identities of the pair
KeyEval ==
    /\ call.fn = "get_engine_key"
    /\ ret = NoRet
    /\ ret' = [kind |-> "keys", a |-> KeyOf(call.a), b |-> KeyOf(call.b)]
    /\ UNCHANGED <<machineVars, call>>

KeySpec == KeyInit /\ [][KeyEval]_vars

----------------------------------------------------------------------------
(* The inspectors' normalize_type *)

\* DMInspector.normalize_type: type_map
DMTypeMap ==
    ("NUMBER" :> "NUMERIC") @@ ("NUMERIC" :> "NUMERIC") @@
    ("DECIMAL" :> "DECIMAL") @@ ("INTEGER" :> "INTEGER") @@
    ("INT" :> "INTEGER") @@ ("BIGINT" :> "BIGINT") @@
    ("SMALLINT" :> "SMALLINT") @@ ("TINYINT" :> "TINYINT") @@
    ("FLOAT" :> "FLOAT") @@ ("DOUBLE" :> "DOUBLE") @@ ("REAL" :> "FLOAT") @@
    ("VARCHAR" :> "VARCHAR") @@ ("VARCHAR2" :> "VARCHAR") @@
    ("CHAR" :> "CHAR") @@ ("CHARACTER" :> "CHAR") @@ ("TEXT" :> "TEXT") @@
    ("CLOB" :> "TEXT") @@ ("NCHAR" :> "NCHAR") @@ ("NVARCHAR" :> "NVARCHAR") @@
    ("NVARCHAR2" :> "NVARCHAR") @@ ("DATE" :> "DATE") @@ ("TIME" :> "TIME") @@
    ("TIMESTAMP" :> "TIMESTAMP") @@ ("DATETIME" :> "DATETIME") @@
    ("BLOB" :> "BLOB") @@ ("BINARY" :> "BINARY") @@
    ("VARBINARY" :> "VARBINARY") @@ ("IMAGE" :> "BLOB") @@
    ("BIT" :> "BOOLEAN") @@ ("BOOLEAN" :> "BOOLEAN")

\* GaussDBInspector.normalize_type: type_map
GaussDBTypeMap ==
    ("jsonb" :> "JSON") @@ ("bytea" :> "BLOB") @@ ("serial" :> "INTEGER") @@
    ("bigserial" :> "BIGINT") @@ ("uuid" :> "UUID") @@ ("int4" :> "INTEGER") @@
    ("int8" :> "BIGINT") @@ ("int2" :> "SMALLINT") @@ ("float4" :> "FLOAT") @@
    ("float8" :> "DOUBLE") @@ ("bool" :> "BOOLEAN") @@
    ("timestamptz" :> "TIMESTAMP WITH TIME ZONE") @@
    ("timestamp" :> "TIMESTAMP") @@ ("clob" :> "TEXT") @@ ("blob" :> "BLOB") @@
    ("number" :> "NUMERIC") @@ ("raw" :> "BYTEA") @@
    ("nvarchar2" :> "NVARCHAR") @@ ("varchar2" :> "VARCHAR")

\* KingbaseESInspector.normalize_type: type_map
KingbaseTypeMap ==
    ("jsonb" :> "JSON") @@ ("bytea" :> "BLOB") @@ ("serial" :> "INTEGER") @@
    ("bigserial" :> "BIGINT") @@ ("uuid" :> "UUID") @@ ("int4" :> "INTEGER") @@
    ("int8" :> "BIGINT") @@ ("int2" :> "SMALLINT") @@ ("float4" :> "FLOAT") @@
    ("float8" :> "DOUBLE") @@ ("bool" :> "BOOLEAN") @@
    ("timestamptz" :> "TIMESTAMP WITH TIME ZONE") @@
    ("timestamp" :> "TIMESTAMP") @@ ("clob" :> "TEXT") @@ ("blob" :> "BLOB") @@
    ("number" :> "NUMERIC") @@ ("raw" :> "BYTEA") @@
    ("nvarchar2" :> "NVARCHAR") @@ ("varchar2" :> "VARCHAR") @@
    ("long" :> "TEXT") @@ ("binary_double" :> "DOUBLE") @@
    ("binary_float" :> "FLOAT")

\* dict.get(key, default) for a dict whose keys are single words
MapGet(map, key, default) ==
    IF Len(key) = 1 /\ key[1] \in DOMAIN map THEN <<map[key[1]]>> ELSE default

\* DMInspector.normalize_type
DMNormalizeType(raw_type) ==
    LET base_type == Upper(Strip(SplitFirst(raw_type, "(")))
    IN  MapGet(DMTypeMap, base_type, base_type)

\* GaussDBInspector.normalize_type
GaussDBNormalizeType(raw_type) ==
    LET base_type == Strip(Lower(SplitFirst(raw_type, "(")))
    IN  MapGet(GaussDBTypeMap, base_type, Upper(raw_type))

\* KingbaseESInspector.normalize_type
KingbaseNormalizeType(raw_type) ==
    LET base_type == Strip(Lower(SplitFirst(raw_type, "(")))
    IN  MapGet(KingbaseTypeMap, base_type, Upper(raw_type))

Vendors == {"dm", "gaussdb", "kingbase"}

\* normalize_type of the vendor's inspector
normalize_type(vendor, raw_type) ==
    CASE vendor = "dm" -> DMNormalizeType(raw_type)
      [] vendor = "gaussdb" -> GaussDBNormalizeType(raw_type)
      [] vendor = "kingbase" -> KingbaseNormalizeType(raw_type)

\* the type names the model spells: every key of the three type maps, and two no map holds
TypeWords ==
    {"bigint", "bigserial", "binary", "binary_double", "binary_float", "bit",
     "blob", "bool", "boolean", "bytea", "char", "character", "clob", "date",
     "datetime", "decimal", "double", "float", "float4", "float8", "geometry",
     "image", "int", "int2", "int4", "int8", "integer", "json", "jsonb",
     "long", "nchar", "number", "numeric", "nvarchar", "nvarchar2", "raw",
     "real", "serial", "smallint", "text", "time", "timestamp", "timestamptz",
     "tinyint", "uuid", "varbinary", "varchar", "varchar2"}

\* The type names as a catalog may spell them: lower case, upper case, mixed
TypeSymbols == TypeWords \cup {UpperOf[w] : w \in TypeWords} \cup {"Varchar"}

\* The strings of at most n symbols of S
SeqsUpTo(S, n) == UNION {[1..k -> S] : k \in 0..n}

\* The raw type strings normalize_type is evaluated on: leading blanks, a type
\* name or none, then blanks, brackets and digits
RawTypes ==
    {pre \o mid \o post :
        pre \in SeqsUpTo({" "}, 1),
        mid \in {<<>>} \cup {<<w>> : w \in TypeSymbols},
        post \in SeqsUpTo({" ", "(", ")", "9"}, MaxSuffixLen)}

NormInit ==
    /\ MachineInit
    /\ call \in [fn : {"normalize_type"}, vendor : Vendors, raw_type : RawTypes]
    /\ ret = NoRet

\* inspector.normalize_type(raw_type)
NormEval ==
    /\ call.fn = "normalize_type"
    /\ ret = NoRet
    /\ ret' = [kind |-> "return", value |-> normalize_type(call.vendor, call.raw_type)]
    /\ UNCHANGED <<machineVars, call>>

NormSpec == NormInit /\ [][NormEval]_vars

----------------------------------------------------------------------------
(* The inspectors' get_table_comment and get_column_comment *)

\* What the catalog query gives: it raises, or .scalar() is None (no row, or
\* a row holding NULL), the empty string or a text
QueryResults == {"raise", "no row", "null", "empty", "text"}

CommentInit ==
    /\ MachineInit
    /\ call \in [fn : {"get_table_comment", "get_column_comment"}, vendor : Vendors,
                 connect : {"ok", "raise"}, query : QueryResults]
    /\ ret = NoRet

\* with self.engine.connect() as conn: no inspector guards it
CommentConnect ==
    /\ call.fn \in {"get_table_comment", "get_column_comment"}
    /\ ret = NoRet
    /\ ret' = IF call.connect = "raise" THEN [kind |-> "raise"] ELSE [kind |-> "connected"]
    /\ UNCHANGED <<machineVars, call>>

\* result or ""
OrEmpty(result) == IF result \in {"no row", "null", "empty"} THEN "" ELSE result

\* The inspector catches what the catalog query raises: DMInspector runs it
\* inside try/except Exception, GaussDBInspector and KingbaseESInspector do not.
CatchesQueryError(vendor) == vendor = "dm"

\* conn.execute(sql, {...}).scalar() and the return
CommentQuery ==
    /\ call.fn \in {"get_table_comment", "get_column_comment"}
    /\ ret.kind = "connected"
    /\ ret' = IF call.query = "raise"
              THEN IF CatchesQueryError(call.vendor)
                   THEN [kind |-> "return", value |-> ""]
                   ELSE [kind |-> "raise"]
              ELSE [kind |-> "return", value |-> OrEmpty(call.query)]
    /\ UNCHANGED <<machineVars, call>>

CommentNext == CommentConnect \/ CommentQuery

CommentSpec == CommentInit /\ [][CommentNext]_vars

----------------------------------------------------------------------------
(* format_schema_dsl *)


\* format_schema_dsl: type_aliases
type_aliases ==
    ("INTEGER" :> "i") @@ ("INT" :> "i") @@ ("BIGINT" :> "i") @@
    ("SMALLINT" :> "i") @@ ("TINYINT" :> "i") @@
    ("VARCHAR" :> "s") @@ ("TEXT" :> "s") @@ ("CHAR" :> "s") @@
    ("DATETIME" :> "dt") @@ ("TIMESTAMP" :> "dt") @@ ("DATE" :> "dt") @@
    ("DECIMAL" :> "f") @@ ("NUMERIC" :> "f") @@ ("FLOAT" :> "f") @@
    ("DOUBLE" :> "f") @@
    ("BOOLEAN" :> "b") @@ ("BOOL" :> "b") @@
    ("JSON" :> "j")

RECURSIVE Join(_, _)
\* sep.join(parts)
Join(parts, sep) ==
    IF parts = <<>> THEN <<>>
    ELSE IF Len(parts) = 1 THEN parts[1]
    ELSE parts[1] \o sep \o Join(Tail(parts), sep)

\* A column code that ignores type_aliases
ColTypeNoAlias(col) == Lower(Upper(SplitFirst(col.type, "(")))

\* raw_type = col['type'].split('(')[0].upper()
\* col_type = type_aliases.get(raw_type, raw_type.lower())
ColType(col) ==
    LET raw_type == Upper(SplitFirst(col.type, "("))
    IN  MapGet(type_aliases, raw_type, Lower(raw_type))

\* A column token that never carries the comment
ColumnPartNoComment(col, with_type, with_comment) ==
    Join(<<col.name>> \o (IF with_type THEN <<ColType(col)>> ELSE <<>>), <<":">>)

\* ":".join(parts) of one column
ColumnPart(col, with_type, with_comment) ==
    LET parts == <<col.name>>
                 \o (IF with_type THEN <<ColType(col)>> ELSE <<>>)
                 \o (IF with_comment /\ Truthy(col.comment)
                     THEN << <<"#", " ">> \o col.comment >> ELSE <<>>)
    IN  Join(parts, <<":">>)

\* The lines format_schema_dsl appends for one table
TableLines(table, with_type, with_comment) ==
    LET column_parts == [i \in 1..Len(table.columns) |->
                            ColumnPart(table.columns[i], with_type, with_comment)]
    IN  (IF with_comment /\ Truthy(table.comment)
         THEN << <<"#", " ">> \o table.comment >> ELSE <<>>)
        \o << <<"T", ":">> \o table.name \o <<"(">>
              \o Join(column_parts, <<",", " ">>) \o <<")">> >>

RECURSIVE SchemaLines(_, _, _)
\* lines, after the loop over schema.items()
SchemaLines(schema, with_type, with_comment) ==
    IF schema = <<>> THEN <<>>
    ELSE TableLines(Head(schema), with_type, with_comment)
         \o SchemaLines(Tail(schema), with_type, with_comment)

\* format_schema_dsl(schema, with_type, with_comment)
format_schema_dsl(schema, with_type, with_comment) ==
    Join(SchemaLines(schema, with_type, with_comment), <<"\n">>)

\* The columns of the snapshots: an aliased type, a type with no alias that
\* carries a length; no comment, a text, a text that holds a comma
Columns ==
    {[name |-> <<"id">>, type |-> <<"INTEGER">>, comment |-> None],
     [name |-> <<"name">>, type |-> <<"VARCHAR">>, comment |-> <<"display name">>],
     [name |-> <<"name">>, type |-> <<"UUID", "(", "9", ")">>,
      comment |-> <<"display name", ",", " ", "id">>]}

\* The table comments of the snapshots: none, an empty one, a text
TableComments == {None, <<>>, <<"User accounts">>}

\* The table names of the snapshots
TableNames == {<<"users">>, <<"orders">>}

\* The key orders of a snapshot: a dict holds no key twice
NameOrders ==
    {ns \in SeqsUpTo(TableNames, MaxTables) :
        \A i, j \in 1..Len(ns) : ns[i] = ns[j] => i = j}

\* The snapshots: the items of a dict in insertion order
Snapshots ==
    UNION {{[i \in 1..Len(ns) |->
                [name |-> ns[i], columns |-> cs[i], comment |-> ms[i]]] :
              cs \in [1..Len(ns) -> SeqsUpTo(Columns, MaxColumns)],
              ms \in [1..Len(ns) -> TableComments]} :
           ns \in NameOrders}

FmtInit ==
    /\ MachineInit
    /\ call \in [fn : {"format_schema_dsl"}, schema : Snapshots,
                 with_type : BOOLEAN, with_comment : BOOLEAN]
    /\ ret = NoRet

\* format_schema_dsl(schema, with_type, with_comment)
FmtEval ==
    /\ call.fn = "format_schema_dsl"
    /\ ret = NoRet
    /\ ret' = [kind |-> "dsl",
               value |-> format_schema_dsl(call.schema, call.with_type,
                                           call.with_comment)]
    /\ UNCHANGED <<machineVars, call>>

FmtSpec == FmtInit /\ [][FmtEval]_vars

----------------------------------------------------------------------------
(* The dialects' _get_server_version_info *)

\* \d
Digits == {DigitChar[n] : n \in 1..10}

\* int() of one digit
DigitValue(c) == CHOOSE n \in 0..9 : DigitChar[n + 1] = c

RECURSIVE StrToInt(_)
\* int(s) of a string of digits
StrToInt(s) ==
    IF Len(s) = 1 THEN DigitValue(s[1])
    ELSE 10 * StrToInt(SubSeq(s, 1, Len(s) - 1)) + DigitValue(s[Len(s)])

\* re.IGNORECASE: the symbol is the word, in any letter case
IsWord(c, word) == Lower(<<c>>) = Lower(<<word>>)

\* Where a greedy run of symbols of S that starts at i ends: the index of
\* the first symbol from i on that is not in S
RunEnd(v, i, S) ==
    CHOOSE j \in i..(Len(v) + 1) :
        /\ \A k \in i..(j - 1) : v[k] \in S
        /\ j = Len(v) + 1 \/ v[j] \notin S

\* v[i] is the symbol c
At(v, i, c) == i <= Len(v) /\ v[i] = c

\* v[i] is the letter c in either case
AtLetter(v, i, c) == i <= Len(v) /\ IsWord(v[i], c)

\* An optional group that took part in no match
NoGroup == None

\* The groups of  openGauss\s+(\d+)\.(\d+)\.(\d+)(?:-\w+)?.*  matched from
\* index p on, <<>> when it does not match there
OpenGaussAt(v, p) ==
    LET b == RunEnd(v, p + 1, {" "})
        c == RunEnd(v, b, Digits)
        d == RunEnd(v, c + 1, Digits)
        e == RunEnd(v, d + 1, Digits)
    IN  IF /\ IsWord(v[p], "openGauss")
           /\ b > p + 1 /\ c > b
           /\ At(v, c, ".") /\ d > c + 1
           /\ At(v, d, ".") /\ e > d + 1
        THEN <<SubSeq(v, b, c - 1), SubSeq(v, c + 1, d - 1), SubSeq(v, d + 1, e - 1)>>
        ELSE <<>>

\* The groups of  PostgreSQL\s+(\d+)\.(\d+)(?:\.(\d+))?.*  matched from index
\* p on, <<>> when it does not match there
PostgreSQLAt(v, p) ==
    LET b == RunEnd(v, p + 1, {" "})
        c == RunEnd(v, b, Digits)
        d == RunEnd(v, c + 1, Digits)
        e == RunEnd(v, d + 1, Digits)
    IN  IF /\ IsWord(v[p], "PostgreSQL")
           /\ b > p + 1 /\ c > b
           /\ At(v, c, ".") /\ d > c + 1
        THEN <<SubSeq(v, b, c - 1), SubSeq(v, c + 1, d - 1),
               IF At(v, d, ".") /\ e > d + 1 THEN SubSeq(v, d + 1, e - 1)
               ELSE NoGroup>>
        ELSE <<>>

\* What 0*(\d+) captures of a run of digits: 0* takes the leading zeros and
\* gives the last one back when the run holds nothing else
AfterZeros(run) ==
    LET z == RunEnd(run, 1, {"0"})
    IN  IF z > Len(run) THEN <<"0">> ELSE SubSeq(run, z, Len(run))

\* The groups of  [Kk]ingbase(?:ES)?\s+V0*(\d+)R0*(\d+)(?:C0*(\d+))?.*
\* matched from index p on, <<>> when it does not match there
KingbaseAt(v, p) ==
    LET a == IF AtLetter(v, p + 1, "ES") THEN p + 2 ELSE p + 1
        b == RunEnd(v, a, {" "})
        c == RunEnd(v, b + 1, Digits)
        d == RunEnd(v, c + 1, Digits)
        e == RunEnd(v, d + 1, Digits)
    IN  IF /\ IsWord(v[p], "Kingbase")
           /\ b > a
           /\ AtLetter(v, b, "V") /\ c > b + 1
           /\ AtLetter(v, c, "R") /\ d > c + 1
        THEN <<AfterZeros(SubSeq(v, b + 1, c - 1)),
               AfterZeros(SubSeq(v, c + 1, d - 1)),
               IF AtLetter(v, d, "C") /\ e > d + 1
               THEN AfterZeros(SubSeq(v, d + 1, e - 1)) ELSE NoGroup>>
        ELSE <<>>

\* The groups of the named pattern matched from index p on
PatternAt(pattern, v, p) ==
    CASE pattern = "openGauss" -> OpenGaussAt(v, p)
      [] pattern = "Kingbase" -> KingbaseAt(v, p)
      [] pattern = "PostgreSQL" -> PostgreSQLAt(v, p)

\* re.match(r'.*<pattern>', v): the leading .* is greedy and stops at a line
\* feed, so the pattern is matched at the last index it matches at on the
\* first line; m.groups(), <<>> when there is no match
ReMatch(v, pattern) ==
    LET starts == {p \in 1..Len(v) :
                      /\ \A k \in 1..(p - 1) : v[k] # "\n"
                      /\ PatternAt(pattern, v, p) # <<>>}
    IN  IF starts = {} THEN <<>>
        ELSE PatternAt(pattern, v, CHOOSE p \in starts : \A q \in starts : q <= p)

\* The call returns the tuple, or raises when int() is given None
VersionTuple(major, minor, patch) ==
    IF NoGroup \in {major, minor, patch} THEN [kind |-> "raise", exc |-> "TypeError"]
    ELSE [kind |-> "return",
          value |-> <<StrToInt(major), StrToInt(minor), StrToInt(patch)>>]

\* A conversion with no guard: int(patch)
PatchOrFail(patch) == patch

\* int(patch) if patch else 0
PatchOrZero(patch) == IF Truthy(patch) THEN patch ELSE <<"0">>

\* The PostgreSQL pattern and the default, common to both dialects
PostgreSQLFallback(v) ==
    LET m == ReMatch(v, "PostgreSQL")
    IN  IF m # <<>> THEN VersionTuple(m[1], m[2], PatchOrZero(m[3]))
        ELSE [kind |-> "return", value |-> <<10, 0, 0>>]

\* GaussDBDialect._get_server_version_info, v the text SELECT version() gave
GaussDBVersionInfo(v) ==
    LET m == ReMatch(v, "openGauss")
    IN  IF m # <<>> THEN VersionTuple(m[1], m[2], m[3])
        ELSE PostgreSQLFallback(v)

\* KingbaseESDialect._get_server_version_info, v the text SELECT version() gave
KingbaseVersionInfo(v) ==
    LET m == ReMatch(v, "Kingbase")
    IN  IF m # <<>> THEN VersionTuple(m[1], m[2], PatchOrZero(m[3]))
        ELSE PostgreSQLFallback(v)

\* The digit strings of the major version: runs of 0 and 8, and 7 and 10
MajorRuns == (SeqsUpTo({"0", "8"}, MaxDigits) \ {<<>>}) \cup {<<"7">>, <<"1", "0">>}

\* The version numbers of the texts: X, X.Y, X.Y.Z and V<maj>[R<min>[C[<patch>[B<build>]]]]
VersionNumbers ==
    UNION {{M, M \o <<".">> \o m, M \o <<".">> \o m \o <<".">> \o p,
            <<"V">> \o M,
            <<"V">> \o M \o <<"R">> \o z,
            <<"V">> \o M \o <<"R">> \o z \o <<"C">>,
            <<"V">> \o M \o <<"R">> \o z \o <<"C">> \o y,
            <<"V">> \o M \o <<"R">> \o z \o <<"C">> \o y \o <<"B", "0", "0", "1", "4">>} :
           M \in MajorRuns, m \in {<<"0">>, <<"6">>}, p \in {<<"0">>, <<"4">>},
           z \in {<<"0", "0", "6">>, <<"0", "0", "0">>},
           y \in {<<"0", "0", "8">>, <<"0">>}}

\* The texts SELECT version() gives: a product name, blanks and a version
\* number, inside a longer text or not
VersionTexts ==
    {lead \o word \o sp \o num \o tail :
        lead \in {<<>>, <<"(">>,
                  <<"PostgreSQL", " ", "9", ".", "2", ".", "4", " ", "(">>},
        word \in {<<"openGauss">>, <<"OPENGAUSS">>, <<"Kingbase">>,
                  <<"Kingbase", "ES">>, <<"PostgreSQL">>, <<"MySQL">>},
        sp \in {<<>>, <<" ">>, <<" ", " ">>},
        num \in VersionNumbers,
        tail \in {<<>>, <<" ", "on x86_64-pc-linux-gnu">>,
                  <<"-", "RC1", " ", "build", " ", "10d38387", ")", " ",
                    "compiled at">>}}

VerInit ==
    /\ MachineInit
    /\ call \in [fn : {"_get_server_version_info"}, dialect : {"gaussdb", "kingbase"},
                 v : VersionTexts]
    /\ ret = NoRet

\* dialect._get_server_version_info(connection)
VerEval ==
    /\ call.fn = "_get_server_version_info"
    /\ ret = NoRet
    /\ ret' = IF call.dialect = "gaussdb" THEN GaussDBVersionInfo(call.v)
              ELSE KingbaseVersionInfo(call.v)
    /\ UNCHANGED <<machineVars, call>>

VerSpec == VerInit /\ [][VerEval]_vars

----------------------------------------------------------------------------
(* The claims *)

\* C1: a get_or_create_engine call made after an earlier call with the
\* identical identity has returned, with no dispose_all_engines between the
\* two, returns the engine the earlier call returned and builds no engine,
\* whatever calls on any identity were made in between.
C1_SameEngineReused ==
    \A t \in Threads :
        LET f == th[t] IN
        (f.prior # {} /\ f.pc \notin {"goc_check", "goc_hit"})
            => /\ f.gocDone
               /\ f.eng \in f.prior
               /\ Cardinality(f.prior) = 1
               /\ ~f.fresh

\* C1's case: a second call on an identity has returned while the cache
\* holds engines of other identities too.
C1_Witness ==
    \E t \in Threads :
        /\ th[t].op = "goc" /\ th[t].pc = "done" /\ th[t].prior # {}
        /\ Cardinality(DOMAIN cache) >= 2

\* C2: the cache never hands out an engine that has already been disposed: an
\* engine get_or_create_engine returns has had no dispose() call.
C2_NoDisposedEngineHandedOut ==
    \A t \in Threads : th[t].gocDone => disposeCount[th[t].eng] = 0

\* C3: a dispose_all_engines call made directly after one that returned
\* disposes no engine and leaves the three maps empty, as the first left them.
C3_DisposeIdempotent ==
    \A t \in Threads :
        LET f == th[t] IN
        (f.op = "dispose" /\ f.second)
            => /\ f.exc = "none"
               /\ cache = EmptyMap /\ counters = EmptyMap /\ ctime = EmptyMap
               /\ disposeCount = f.dcSnap

\* C3's case: the second of two dispose_all_engines calls has returned, and
\* the first had engines to dispose.
C3_Witness ==
    \E t \in Threads :
        /\ th[t].op = "dispose" /\ th[t].second /\ th[t].pc = "done"
        /\ \E e \in Engines : disposeCount[e] > 0

\* C4: get_engine_key gives two identities the same key if and only if all
\* six fields match, an absent schema being different from the empty one.
C4_KeyInjective ==
    ret.kind = "keys" => ((ret.a = ret.b) <=> (call.a = call.b))

\* C5: under concurrent first use of an identity, with no dispose_all_engines
\* involved, every caller of get_or_create_engine receives the same engine.
C5_CreationSerialized ==
    ndispose = 0 => \A i \in Idents : Cardinality(handed[i]) <= 1

PGFamily == {<<"postgresql">>, <<"gaussdb">>, <<"kingbase">>}
OracleFamily == {<<"oracle">>, <<"dm">>}

StatementsOf(f) == {f.log[n] : n \in 1..Len(f.log)}

\* C6: in an execute_sql call with a schema for a PostgreSQL-family or an
\* Oracle-family vendor, the caller's statement runs only after the vendor's
\* schema-selection statement has run in the same transaction.
C6_SchemaStatementFirst ==
    \A t \in Threads :
        LET f == th[t] IN
        (f.op = "exec" /\ Truthy(f.ident.schema) /\ "sql" \in StatementsOf(f))
            => /\ Lower(f.ident.db_type) \in PGFamily
                    => f.log = <<"SET search_path TO", "sql">>
               /\ Lower(f.ident.db_type) \in OracleFamily
                    => f.log = <<"ALTER SESSION SET CURRENT_SCHEMA =", "sql">>

\* C7: an execute_sql call in which the schema statement or the caller's
\* statement failed ends by raising the wrapping ValueError, with no result.
C7_FailureWrapped ==
    \A t \in Threads :
        LET f == th[t] IN
        (f.op = "exec" /\ f.pc = "done" /\ f.failedStmt)
            => (f.exc = "ValueError" /\ f.result = "none")

\* C8: get_table_comment and get_column_comment never raise, and return ""
\* when the connection or the query fails or the catalog gives no comment.
C8_CommentNeverRaises ==
    /\ ret.kind # "raise"
    /\ (ret.kind = "return" /\ call.query \in {"raise", "no row", "null"})
            => ret.value = ""

\* C9: normalize_type of a base type token followed by "(" and anything equals
\* normalize_type of the bare token.
C9_SuffixIgnored ==
    LET t == SplitFirst(call.raw_type, "(") IN
    (/\ ret.kind = "return"
     /\ \E n \in 1..Len(call.raw_type) : call.raw_type[n] = "("
     /\ \E w \in TypeSymbols : t = <<w>>)
        => ret.value = normalize_type(call.vendor, t)

\* The canonical-type enumeration
CanonicalTypes ==
    {"INTEGER", "BIGINT", "SMALLINT", "TINYINT", "NUMERIC", "DECIMAL", "FLOAT",
     "DOUBLE", "VARCHAR", "CHAR", "NCHAR", "NVARCHAR", "TEXT", "DATE", "TIME",
     "TIMESTAMP", "DATETIME", "BLOB", "BINARY", "VARBINARY", "BOOLEAN", "JSON",
     "UUID", "TIMESTAMP WITH TIME ZONE"}

\* The base token of a raw type is a key of the vendor's type map.
BaseMapped(vendor, raw_type) ==
    LET t == SplitFirst(raw_type, "(")
        key == IF vendor = "dm" THEN Upper(Strip(t)) ELSE Strip(Lower(t))
        map == CASE vendor = "dm" -> DMTypeMap
                 [] vendor = "gaussdb" -> GaussDBTypeMap
                 [] vendor = "kingbase" -> KingbaseTypeMap
    IN  Len(key) = 1 /\ key[1] \in DOMAIN map

\* C10: normalize_type gives a canonical type (so every value of a vendor type
\* map is one) or, for a base token the vendor map does not hold, the
\* upper-cased, stripped base type, the suffix from the first "(" removed.
C10_CanonicalOrUpperBase ==
    ret.kind = "return"
        => \/ ret.value \in {<<c>> : c \in CanonicalTypes}
           \/ /\ ~BaseMapped(call.vendor, call.raw_type)
              /\ ret.value = Upper(Strip(SplitFirst(call.raw_type, "(")))

\* The type families and their codes
FamilyCodes ==
    <<[family |-> {"INTEGER", "INT", "BIGINT", "SMALLINT", "TINYINT"}, code |-> "i"],
      [family |-> {"VARCHAR", "TEXT", "CHAR"}, code |-> "s"],
      [family |-> {"DATETIME", "TIMESTAMP", "DATE"}, code |-> "dt"],
      [family |-> {"DECIMAL", "NUMERIC", "FLOAT", "DOUBLE"}, code |-> "f"],
      [family |-> {"BOOLEAN", "BOOL"}, code |-> "b"],
      [family |-> {"JSON"}, code |-> "j"]>>

\* The code of a column type: the code of the family its base type is in,
\* the lower-cased base type when it is in none
CodeOfType(type) ==
    LET base == Upper(SplitFirst(type, "("))
        hits == {n \in 1..Len(FamilyCodes) :
                    Len(base) = 1 /\ base[1] \in FamilyCodes[n].family}
    IN  IF hits = {} THEN Lower(base)
        ELSE <<FamilyCodes[CHOOSE n \in hits : TRUE].code>>

\* T:<table>(<name>:<code>, ...)
TypedHeader(table) ==
    <<"T", ":">> \o table.name \o <<"(">>
        \o Join([i \in 1..Len(table.columns) |->
                    table.columns[i].name \o <<":">>
                        \o CodeOfType(table.columns[i].type)], <<",", " ">>)
        \o <<")">>

\* The lines of a text: the pieces between its line feeds
LineCount(text) == 1 + Cardinality({n \in 1..Len(text) : text[n] = "\n"})

\* The snapshot holds the one table users with id:INTEGER and name:VARCHAR
IsUsersExample(schema) ==
    /\ Len(schema) = 1
    /\ schema[1].name = <<"users">>
    /\ Len(schema[1].columns) = 2
    /\ schema[1].columns[1].name = <<"id">>
    /\ schema[1].columns[1].type = <<"INTEGER">>
    /\ schema[1].columns[2].name = <<"name">>
    /\ schema[1].columns[2].type = <<"VARCHAR">>

\* C11: with with_type=True and with_comment=False the text is one line per
\* table, T:<table>(<name>:<code>, ...), the code being the family code of
\* the column's base type or the lower-cased base type when it is in no
\* family; users(id INTEGER, name VARCHAR) gives T:users(id:i, name:s).
C11_TypedHeaderPerTable ==
    (ret.kind = "dsl" /\ call.with_type /\ ~call.with_comment)
        => /\ ret.value = Join([i \in 1..Len(call.schema) |->
                                   TypedHeader(call.schema[i])], <<"\n">>)
           /\ call.schema # <<>> => LineCount(ret.value) = Len(call.schema)
           /\ IsUsersExample(call.schema)
                => ret.value = <<"T", ":", "users", "(", "id", ":", "i", ",", " ",
                                 "name", ":", "s", ")">>

\* Two tables, a column whose type has an alias and one whose type has none
C11_Witness ==
    /\ ret.kind = "dsl" /\ call.with_type /\ ~call.with_comment
    /\ Len(call.schema) = 2
    /\ \E i \in 1..2 : \E n, m \in 1..Len(call.schema[i].columns) :
         /\ call.schema[i].columns[n].type = <<"INTEGER">>
         /\ call.schema[i].columns[m].type = <<"UUID", "(", "9", ")">>

\* The table or column has a comment: one is recorded and it is not empty
HasComment(x) == x.comment # None /\ x.comment # <<>>

\* The lines of one table with types and comments: a "# <comment>" line when
\* the table has a comment, then the header, whose token for a column that
\* has a comment is <name>:<code>, link, # <comment>
CommentedLines(table, link) ==
    (IF HasComment(table) THEN << <<"#", " ">> \o table.comment >> ELSE <<>>)
    \o << <<"T", ":">> \o table.name \o <<"(">>
          \o Join([i \in 1..Len(table.columns) |->
                      LET col == table.columns[i] IN
                        col.name \o <<":">> \o CodeOfType(col.type)
                            \o (IF HasComment(col)
                                THEN link \o <<"#", " ">> \o col.comment
                                ELSE <<>>)], <<",", " ">>)
          \o <<")">> >>

RECURSIVE CommentedText(_, _)
\* The lines of all tables, in the snapshot's order
CommentedText(schema, link) ==
    IF schema = <<>> THEN <<>>
    ELSE CommentedLines(Head(schema), link) \o CommentedText(Tail(schema), link)

\* The snapshot of the example: users, commented "User accounts", with id
\* INTEGER (no comment) and name VARCHAR (commented "display name")
IsCommentedUsersExample(schema) ==
    /\ IsUsersExample(schema)
    /\ schema[1].comment = <<"User accounts">>
    /\ schema[1].columns[1].comment = None
    /\ schema[1].columns[2].comment = <<"display name">>

\* C12 as stated: with with_type=True and with_comment=True a commented
\* table is a line "# <comment>" followed by its header, a commented column
\* is "<name>:<code> # <comment>", an uncommented column has no suffix; the
\* example gives "# User accounts", "T:users(id:i, name:s # display name)".
C12_CommentAfterBlank ==
    (ret.kind = "dsl" /\ call.with_type /\ call.with_comment)
        => /\ ret.value = Join(CommentedText(call.schema, <<" ">>), <<"\n">>)
           /\ IsCommentedUsersExample(call.schema)
                => ret.value = <<"#", " ", "User accounts", "\n",
                                 "T", ":", "users", "(", "id", ":", "i", ",", " ",
                                 "name", ":", "s", " ", "#", " ", "display name",
                                 ")">>

\* C12, amended: the comment of a column is one more ":"-joined part of its
\* token, "<name>:<code>:# <comment>"; the example gives "# User accounts",
\* "T:users(id:i, name:s:# display name)".
C12_CommentAfterColon ==
    (ret.kind = "dsl" /\ call.with_type /\ call.with_comment)
        => /\ ret.value = Join(CommentedText(call.schema, <<":">>), <<"\n">>)
           /\ IsCommentedUsersExample(call.schema)
                => ret.value = <<"#", " ", "User accounts", "\n",
                                 "T", ":", "users", "(", "id", ":", "i", ",", " ",
                                 "name", ":", "s", ":", "#", " ", "display name",
                                 ")">>

\* The example snapshot has been encoded with types and comments
C12_Witness ==
    /\ ret.kind = "dsl" /\ call.with_type /\ call.with_comment
    /\ IsCommentedUsersExample(call.schema)

RECURSIVE SplitOn(_, _)
\* The pieces of s between the occurrences of the separator sep
SplitOn(s, sep) ==
    LET n == Len(sep)
        at == {i \in 1..(Len(s) - n + 1) : SubSeq(s, i, i + n - 1) = sep}
    IN  IF at = {} THEN <<s>>
        ELSE LET i == CHOOSE i \in at : \A j \in at : i <= j
             IN  <<SubSeq(s, 1, i - 1)>> \o SplitOn(SubSeq(s, i + n, Len(s)), sep)

\* The header lines of a text: the lines that start with T:
HeaderLines(text) ==
    SelectSeq(SplitOn(text, <<"\n">>),
              LAMBDA l : Len(l) >= 2 /\ l[1] = "T" /\ l[2] = ":")

\* A header line T:<name>(<token>, <token>, ...) read back: the table name
\* and the column names, each the part of its token before the first ":"
ParseHeader(line) ==
    LET rest == SubSeq(line, 3, Len(line))
        name == SplitFirst(rest, "(")
        body == SubSeq(rest, Len(name) + 2, Len(rest) - 1)
        tokens == IF body = <<>> THEN <<>> ELSE SplitOn(body, <<",", " ">>)
    IN  [name |-> name,
         columns |-> [i \in 1..Len(tokens) |-> SplitFirst(tokens[i], ":")]]

\* The table names and column names of a snapshot, in its order
NamesOf(schema) ==
    [i \in 1..Len(schema) |->
        [name |-> schema[i].name,
         columns |-> [n \in 1..Len(schema[i].columns) |->
                         schema[i].columns[n].name]]]

\* C13: the header lines of the text, read back, give the table names of the
\* snapshot in its order and for each table its column names in their order,
\* for every combination of with_type and with_comment.
C13_HeadersRoundTrip ==
    ret.kind = "dsl"
        => LET headers == HeaderLines(ret.value)
           IN  [i \in 1..Len(headers) |-> ParseHeader(headers[i])]
                   = NamesOf(call.schema)

\* The longest string of digits that starts at index i of v, <<>> when v[i]
\* is no digit
NumberAt(v, i) ==
    LET ends == {j \in i..Len(v) : \A k \in i..j : v[k] \in Digits}
    IN  IF ends = {} THEN <<>>
        ELSE SubSeq(v, i, CHOOSE j \in ends : \A k \in ends : k <= j)

\* The indices where a number starts after the word at index p and one or
\* more blanks
AfterBlanks(v, p) ==
    {b \in (p + 2)..Len(v) : v[b] # " " /\ \A k \in (p + 1)..(b - 1) : v[k] = " "}

\* The number that follows the mark c at index i, <<>> when there is none
NumberAfter(v, i, c) ==
    IF i <= Len(v) /\ Lower(<<v[i]>>) = Lower(<<c>>) THEN NumberAt(v, i + 1) ELSE <<>>

\* The versions <word> X.Y.Z (or X.Y when the patch is optional) the text holds
DottedVersions(v, word, patchOptional) ==
    UNION {{<<StrToInt(NumberAt(v, b)),
              StrToInt(NumberAfter(v, b + Len(NumberAt(v, b)), ".")),
              LET z == NumberAfter(v, b + Len(NumberAt(v, b)) + 1
                                        + Len(NumberAfter(v, b + Len(NumberAt(v, b)), ".")),
                                   ".")
              IN  IF z = <<>> THEN 0 ELSE StrToInt(z)>> :
             b \in {b \in AfterBlanks(v, p) :
                      LET x == NumberAt(v, b)
                          y == NumberAfter(v, b + Len(x), ".")
                          z == NumberAfter(v, b + Len(x) + 1 + Len(y), ".")
                      IN  x # <<>> /\ y # <<>> /\ (patchOptional \/ z # <<>>)}} :
           p \in {p \in 1..Len(v) : Lower(<<v[p]>>) = Lower(<<word>>)}}

\* The versions Kingbase[ES] V<maj>R<min>[C<patch>] the text holds
KingbaseVersions(v) ==
    UNION {{<<StrToInt(NumberAfter(v, b, "V")),
              StrToInt(NumberAfter(v, b + 1 + Len(NumberAfter(v, b, "V")), "R")),
              LET z == NumberAfter(v, b + 2 + Len(NumberAfter(v, b, "V"))
                                        + Len(NumberAfter(v, b + 1 + Len(NumberAfter(v, b, "V")), "R")),
                                   "C")
              IN  IF z = <<>> THEN 0 ELSE StrToInt(z)>> :
             b \in {b \in AfterBlanks(v, p) \cup
                          (IF p < Len(v) /\ v[p + 1] = "ES"
                           THEN AfterBlanks(v, p + 1) ELSE {}) :
                      LET x == NumberAfter(v, b, "V")
                          y == NumberAfter(v, b + 1 + Len(x), "R")
                      IN  x # <<>> /\ y # <<>>}} :
           p \in {p \in 1..Len(v) : Lower(<<v[p]>>) = <<"kingbase">>}}

\* The versions of the dialect's own pattern the text holds
VendorVersions(dialect, v) ==
    IF dialect = "gaussdb" THEN DottedVersions(v, "openGauss", FALSE)
    ELSE KingbaseVersions(v)

\* (openGauss 7.0.0-RC1 build 10d38387) compiled at
OpenGaussExample ==
    <<"(", "openGauss", " ", "7", ".", "0", ".", "0", "-", "RC1", " ", "build",
      " ", "10d38387", ")", " ", "compiled at">>

\* Kingbase V008R006C008B0014 on x86_64-pc-linux-gnu
KingbaseExample ==
    <<"Kingbase", " ", "V", "0", "0", "8", "R", "0", "0", "6", "C", "0", "0", "8",
      "B", "0", "0", "1", "4", " ", "on x86_64-pc-linux-gnu">>

\* C14: _get_server_version_info never raises; it gives the version of the
\* vendor pattern when the text holds one (leading zeros dropped, a missing
\* patch 0), else that of PostgreSQL X.Y[.Z] (a missing Z 0), else
\* (10, 0, 0); the two example texts give (7, 0, 0) and (8, 6, 8).
C14_VersionFallbackChain ==
    ret.kind # "none"
        => /\ ret.kind = "return"
           /\ LET vendor == VendorVersions(call.dialect, call.v)
                  generic == DottedVersions(call.v, "PostgreSQL", TRUE)
              IN  IF vendor # {} THEN ret.value \in vendor
                  ELSE IF generic # {} THEN ret.value \in generic
                  ELSE ret.value = <<10, 0, 0>>
           /\ (call.dialect = "gaussdb" /\ call.v = OpenGaussExample)
                => ret.value = <<7, 0, 0>>
           /\ (call.dialect = "kingbase" /\ call.v = KingbaseExample)
                => ret.value = <<8, 6, 8>>

\* The Kingbase example has been parsed by the Kingbase dialect
C14_Witness ==
    /\ ret.kind = "return"
    /\ call.dialect = "kingbase" /\ call.v = KingbaseExample
    /\ ret.value = <<8, 6, 8>>

\* C15: with the calls made one at a time, no engine is disposed twice, and
\* a dispose_all_engines call that has ended, normally or with an exception
\* of engine.dispose(), has emptied the cache and has left every engine built
\* so far disposed exactly once.
C15_DisposedExactlyOnce ==
    /\ \A e \in Engines : disposeCount[e] <= 1
    /\ \A t \in Threads :
         (th[t].op = "dispose" /\ th[t].pc = "done")
            => /\ cache = EmptyMap
               /\ \A e \in 1..(nextEngine - 1) : disposeCount[e] = 1

\* C16: while execute_sql calls interleave with a dispose_all_engines of
\* another thread, no execute_sql call opens a transaction or runs a
\* statement on an engine that dispose_all_engines has disposed: a step of
\* such a call from its engine.begin(), its schema statement or its own
\* statement ends with an exception.
C16_NoUseAfterDispose ==
    [][\A t \in Threads :
         (/\ th[t].op = "exec"
          /\ th[t].pc \in {"begin", "schema", "stmt"}
          /\ disposeCount[th[t].eng] > 0
          /\ th'[t].pc # th[t].pc)
            => th'[t].exc # "none"]_vars

\* Where a thread is about to read the three maps: the cache test and the hit
\* path of get_or_create_engine, log_connection_status, the loop of
\* dispose_all_engines
ObservingPcs == {"goc_check", "goc_hit", "acquire", "release", "disp_next"}

\* C17: under any interleaving, whenever a thread is about to read the maps,
\* _ENGINE_CACHE, _CONNECTION_COUNTERS and _ENGINE_CREATION_TIME hold the same
\* keys; so no call ends with the KeyError of a key that is in the engine
\* cache and not in another map.
C17_MapsSameKeys ==
    /\ (\E t \in Threads : th[t].pc \in ObservingPcs)
          => (DOMAIN cache = DOMAIN counters /\ DOMAIN cache = DOMAIN ctime)
    /\ \A t \in Threads : th[t].exc # "KeyError"

\* The execute_sql calls on key k that are between their acquire and their
\* release
InFlight(k) ==
    {t \in Threads :
        /\ th[t].op = "exec" /\ th[t].key = k
        /\ \/ th[t].pc \in {"begin", "schema", "stmt", "commit"}
           \/ th[t].pc = "release" /\ th[t].exc # "KeyError"}

\* C18: under any interleaving, the counter of every key is not negative and
\* is the number of execute_sql calls between their acquire and their release
\* on the key, so 0 when there is none.
C18_CounterCountsInFlight ==
    \A k \in DOMAIN counters :
        counters[k] >= 0 /\ counters[k] = Cardinality(InFlight(k))

====
